---- MODULE Spec2Model ----
(***************************************************************************)
(* A model of rust-chip-8: the CHIP-8 machine state (src/chip8/mod.rs),    *)
(* the one-cycle interpreter (src/chip8/emulation.rs) and the run loop     *)
(* (src/chip8/execution.rs).                                               *)
(*                                                                         *)
(* A Rust panic ends the process; the model records it in `panic` and the  *)
(* machine fields keep whatever the statements executed before the panic   *)
(* had written.  Integer overflow of u8/u16 arithmetic panics when the     *)
(* build has overflow checks (debug profile) and wraps otherwise (release  *)
(* profile): `overflow_checks` is chosen once, in Init.                    *)
(***************************************************************************)
EXTENDS Integers, Sequences, FiniteSets, TLC

\* ------------------------------------------------------------------------
\* Program constants (src/chip8/mod.rs)
\* ------------------------------------------------------------------------
MAX_MEMORY_SIZE == 4096

DISPLAY_WIDTH == 64

DISPLAY_HEIGTH == 32

MAX_DISPLAY_SIZE == DISPLAY_WIDTH * DISPLAY_HEIGTH

MAX_STACK_SIZE == 16

V_SIZE == 16

\* address where load_rom starts to fill memory, and the initial PC
ROM_START == 512

CHIP8_FONTSET ==
  << 240, 144, 144, 144, 240,
      32,  96,  32,  32, 112,
     240,  16, 240, 128, 240,
     240,  16, 240,  16, 240,
     144, 144, 240,  16,  16,
     240, 128, 240,  16, 240,
     240, 128, 240, 144, 240,
     240,  16,  32,  64,  64,
     240, 144, 240, 144, 240,
     240, 144, 240,  16, 240,
     240, 144, 240, 144, 144,
     224, 144, 224, 144, 224,
     240, 128, 128, 128, 240,
     224, 144, 144, 144, 224,
     240, 128, 240, 128, 240,
     240, 128, 240, 128, 128 >>

\* ------------------------------------------------------------------------
\* Bounds of the model
\* ------------------------------------------------------------------------
\* cycles executed by one call of run
MaxCycles == 18

\* ------------------------------------------------------------------------
\* Fixed-width integer arithmetic
\* ------------------------------------------------------------------------
Pow2(k) == 2 ^ k

Bit(a, k) == (a \div Pow2(k)) % 2

RECURSIVE BitAndUpTo(_, _, _)
BitAndUpTo(a, b, k) ==
  IF k < 0 THEN 0
  ELSE Bit(a, k) * Bit(b, k) * Pow2(k) + BitAndUpTo(a, b, k - 1)

\* a & b on 16-bit operands
BitAnd(a, b) == BitAndUpTo(a, b, 15)

RECURSIVE BitOrUpTo(_, _, _)
BitOrUpTo(a, b, k) ==
  IF k < 0 THEN 0
  ELSE (IF Bit(a, k) + Bit(b, k) > 0 THEN Pow2(k) ELSE 0) + BitOrUpTo(a, b, k - 1)

\* a | b on 16-bit operands
BitOr(a, b) == BitOrUpTo(a, b, 15)

RECURSIVE BitXorUpTo(_, _, _)
BitXorUpTo(a, b, k) ==
  IF k < 0 THEN 0
  ELSE ((Bit(a, k) + Bit(b, k)) % 2) * Pow2(k) + BitXorUpTo(a, b, k - 1)

\* a ^ b on 16-bit operands
BitXor(a, b) == BitXorUpTo(a, b, 15)

\* `expr as u8`
AsU8(a) == a % 256

\* ------------------------------------------------------------------------
\* ROM files
\* ------------------------------------------------------------------------
\* the two bytes of one instruction word, big-endian
OpBytes(op) == << op \div 256, op % 256 >>

RECURSIVE Assemble(_)
Assemble(ops) ==
  IF ops = << >> THEN << >> ELSE OpBytes(Head(ops)) \o Assemble(Tail(ops))

\* instruction words from their nibbles
Op4(c, x, y, n) == c * 4096 + x * 256 + y * 16 + n

OpXNN(c, x, nn) == c * 4096 + x * 256 + nn

OpNNN(c, nnn) == c * 4096 + nnn

\* ------------------------------------------------------------------------
\* State
\* ------------------------------------------------------------------------
VARIABLES
  overflow_checks, \* build profile: TRUE = arithmetic overflow panics
  args,            \* parsed command line: [rom, stepping, seed]
  rom_loaded,      \* Chip8.rom_loaded
  opcode,          \* Chip8.opcode
  memory,          \* Chip8.memory, as the map from every address that holds
                   \* a nonzero byte to that byte (see ReadMem)
  v,               \* Chip8.v : [0..15 -> 0..255]
  i,               \* Chip8.i
  pc,              \* Chip8.pc
  display,         \* Chip8.display, as the set of indexes whose cell is true
  draw,            \* Chip8.draw
  stack,           \* Chip8.stack : [0..15 -> u16]
  sp,              \* Chip8.sp
  timers,          \* Chip8.timers
  status,          \* where the program is: "new", "running", "prompt", "exited", "panicked"
  panic,           \* "none" or the kind of the panic that ended the process
  cycles,          \* number of calls of emulate_cycle made by run
  emitted,         \* the last loop iteration logged dump_display()
  hist,            \* the machine as it was before each of the last two cycles
  calls,           \* address of the 2nnn of every pending call, oldest first
  host,            \* the durations one loop iteration can take on this host
  draws,           \* number of bytes the random generator of run has produced
  elapsed,         \* instant.elapsed() of the last loop iteration
  slept,           \* the duration the last loop iteration passed to thread::sleep
  next             \* the line read at the stepping prompt of the last iteration

vars == << overflow_checks, args, rom_loaded, opcode, memory, v, i, pc, display,
           draw, stack, sp, timers, status, panic, cycles, emitted, hist, calls,
           host, draws, elapsed, slept, next >>

\* the fields of Chip8 that emulate_cycle reads and writes, as one record
Self ==
  [ opcode |-> opcode, v |-> v, i |-> i, pc |-> pc, display |-> display,
    draw |-> draw, stack |-> stack, sp |-> sp, panic |-> "none" ]

Panic(self, kind) == [self EXCEPT !.panic = kind]

\* memory[a] for an index a the bounds check has accepted
ReadMem(mem, a) == IF a \in DOMAIN mem THEN mem[a] ELSE 0

\* ------------------------------------------------------------------------
\* emulate_cycle: fetch
\* ------------------------------------------------------------------------
\* Fetch whose second index wraps to address 0 instead of being checked
Fetch_Wrapping(self) ==
  IF self.pc >= MAX_MEMORY_SIZE THEN Panic(self, "index_out_of_bounds")
  ELSE [self EXCEPT !.opcode = BitOr(ReadMem(memory, self.pc) * 256,
                                     ReadMem(memory, (self.pc + 1) % MAX_MEMORY_SIZE))]

Fetch(self) ==
  IF self.pc >= MAX_MEMORY_SIZE THEN Panic(self, "index_out_of_bounds")
  ELSE IF self.pc + 1 >= MAX_MEMORY_SIZE THEN Panic(self, "index_out_of_bounds")
  ELSE [self EXCEPT !.opcode = BitOr(ReadMem(memory, self.pc) * 256,
                                     ReadMem(memory, self.pc + 1))]

\* ------------------------------------------------------------------------
\* emulate_cycle: decode
\* ------------------------------------------------------------------------
DecodeOp(op) == BitAnd(op, 61440)

\* x taken from the third nibble instead of the second
DecodeX_FromY(op) == BitAnd(op, 240) \div 16

DecodeX(op) == BitAnd(op, 3840) \div 256

DecodeY(op) == BitAnd(op, 240) \div 16

DecodeN(op) == AsU8(BitAnd(op, 15))

DecodeNN(op) == AsU8(BitAnd(op, 255))

DecodeNNN(op) == BitAnd(op, 4095)

\* ------------------------------------------------------------------------
\* emulate_cycle: execute, one operator per match arm
\* ------------------------------------------------------------------------
\* Op00E0 whose loop stops after the first display row
Op00E0_FirstRow(self) ==
  [self EXCEPT !.display = { c \in self.display : c >= DISPLAY_WIDTH },
               !.draw = TRUE, !.pc = self.pc + 2]

\* 00E0: clear screen
Op00E0(self) ==
  [self EXCEPT !.display = {}, !.draw = TRUE, !.pc = self.pc + 2]

\* 00EE that returns to the oldest pending call
Op00EE_PopsOldest(self) ==
  IF self.sp - 1 < 0 /\ overflow_checks THEN Panic(self, "arithmetic_overflow")
  ELSE LET popped == [self EXCEPT !.sp = (self.sp - 1) % 256]
       IN  IF popped.sp >= MAX_STACK_SIZE
             THEN Panic(popped, "index_out_of_bounds")
             ELSE [popped EXCEPT !.pc = popped.stack[0]]

\* 00EE: return from subroutine
Op00EE(self) ==
  IF self.sp - 1 < 0 /\ overflow_checks THEN Panic(self, "arithmetic_overflow")
  ELSE LET popped == [self EXCEPT !.sp = (self.sp - 1) % 256]
       IN  IF popped.sp >= MAX_STACK_SIZE
             THEN Panic(popped, "index_out_of_bounds")
             ELSE [popped EXCEPT !.pc = popped.stack[popped.sp]]

\* a jump that lands one instruction after its target
Op1nnn_Next(self, nnn) == [self EXCEPT !.pc = nnn + 2]

\* 1nnn: jump
Op1nnn(self, nnn) == [self EXCEPT !.pc = nnn]

\* StackPush with an index that is not checked against the stack size
StackPush_Unchecked(self) ==
  [self EXCEPT !.stack = [k \in DOMAIN self.stack |->
                            IF k = self.sp THEN self.pc ELSE self.stack[k]],
               !.sp = self.sp + 1]

\* 2nnn: subroutine call
StackPush(self) ==
  IF self.sp >= MAX_STACK_SIZE THEN Panic(self, "index_out_of_bounds")
  ELSE [self EXCEPT !.stack[self.sp] = self.pc, !.sp = self.sp + 1]

Op2nnn(self, nnn) ==
  LET pushed == StackPush(self)
  IN  IF pushed.panic # "none" THEN pushed ELSE [pushed EXCEPT !.pc = nnn]

\* 3xnn: skip if VX == NN
Op3xnn(self, x, nn) ==
  [self EXCEPT !.pc = IF self.v[x] = nn THEN self.pc + 4 ELSE self.pc + 2]

\* 4xnn with the test of 3xnn
Op4xnn_SkipsIfEqual(self, x, nn) ==
  [self EXCEPT !.pc = IF self.v[x] = nn THEN self.pc + 4 ELSE self.pc + 2]

\* 4xnn: skip if VX != NN
Op4xnn(self, x, nn) ==
  [self EXCEPT !.pc = IF self.v[x] # nn THEN self.pc + 4 ELSE self.pc + 2]

\* 5xy0: skip if VX == VY
Op5xy0(self, x, y) ==
  [self EXCEPT !.pc = IF self.v[x] = self.v[y] THEN self.pc + 4 ELSE self.pc + 2]

\* 6xnn: VX = NN
Op6xnn(self, x, nn) == [self EXCEPT !.v[x] = nn, !.pc = self.pc + 2]

\* 7xnn that leaves PC on itself
Op7xnn_NoAdvance(self, x, nn) == [self EXCEPT !.v[x] = AsU8(self.v[x] + nn)]

\* 7xnn that writes the carry of the addition to VF
Op7xnn_Carry(self, x, nn) ==
  [self EXCEPT !.v = [[self.v EXCEPT ![15] = IF self.v[x] + nn > 255 THEN 1 ELSE 0]
                        EXCEPT ![x] = AsU8(self.v[x] + nn)],
               !.pc = self.pc + 2]

\* 7xnn: VX += NN, computed in u16 and truncated
Op7xnn(self, x, nn) ==
  [self EXCEPT !.v[x] = AsU8(self.v[x] + nn), !.pc = self.pc + 2]

\* 8xy0: VX = VY
Op8xy0(self, x, y) == [self EXCEPT !.v[x] = self.v[y], !.pc = self.pc + 2]

\* 8xy1 that resets VF, as the original interpreter did
Op8xy1_ResetsVF(self, x, y) ==
  [self EXCEPT !.v = [[self.v EXCEPT ![x] = BitOr(self.v[x], self.v[y])]
                        EXCEPT ![15] = 0],
               !.pc = self.pc + 2]

\* 8xy1: VX |= VY
Op8xy1(self, x, y) ==
  [self EXCEPT !.v[x] = BitOr(self.v[x], self.v[y]), !.pc = self.pc + 2]

\* 8xy2: VX &= VY
Op8xy2(self, x, y) ==
  [self EXCEPT !.v[x] = BitAnd(self.v[x], self.v[y]), !.pc = self.pc + 2]

\* 8xy3: VX ^= VY
Op8xy3(self, x, y) ==
  [self EXCEPT !.v[x] = BitXor(self.v[x], self.v[y]), !.pc = self.pc + 2]

\* Op8xy4 with the carry test off by one (res >= 255)
Op8xy4_CarryAt255(self, x, y) ==
  [self EXCEPT !.v = [k \in DOMAIN self.v |->
                        IF k = x THEN AsU8(self.v[x] + self.v[y])
                        ELSE IF k = 15 THEN (IF self.v[x] + self.v[y] >= 255 THEN 1 ELSE 0)
                        ELSE self.v[k]],
               !.pc = self.pc + 2]

\* 8xy4: VX += VY; VF is written first, VX last
Op8xy4(self, x, y) ==
  LET res     == self.v[x] + self.v[y]
      flagged == [self EXCEPT !.v[15] = IF res > 255 THEN 1 ELSE 0]
  IN  [flagged EXCEPT !.v[x] = AsU8(res), !.pc = self.pc + 2]

\* `a - b` on u8 operands, after VF has been written: panics on a < b when
\* the build checks overflow, wraps otherwise
SubInto(flagged, x, a, b) ==
  IF a < b /\ overflow_checks THEN Panic(flagged, "arithmetic_overflow")
  ELSE [flagged EXCEPT !.v[x] = (a - b) % 256, !.pc = flagged.pc + 2]

\* 8xy5: VX = VX - VY
Op8xy5(self, x, y) ==
  LET a == self.v[x]
      b == self.v[y]
      flagged == [self EXCEPT !.v[15] = IF a > b THEN 1 ELSE 0]
  IN  SubInto(flagged, x, a, b)

\* 8xy6: VX = VY; VF = VX & 0x0F; VX >>= 1
Op8xy6(self, x, y) ==
  LET copied  == [self EXCEPT !.v[x] = self.v[y]]
      flagged == [copied EXCEPT !.v[15] = BitAnd(copied.v[x], 15)]
  IN  [flagged EXCEPT !.v[x] = flagged.v[x] \div 2, !.pc = self.pc + 2]

\* 8xy7: VX = VY - VX
Op8xy7(self, x, y) ==
  LET a == self.v[y]
      b == self.v[x]
      flagged == [self EXCEPT !.v[15] = IF a > b THEN 1 ELSE 0]
  IN  SubInto(flagged, x, a, b)

\* 8xyE: VX = VY; VF = VX & 0x0F; VX <<= 1
Op8xyE(self, x, y) ==
  LET copied  == [self EXCEPT !.v[x] = self.v[y]]
      flagged == [copied EXCEPT !.v[15] = BitAnd(copied.v[x], 15)]
  IN  [flagged EXCEPT !.v[x] = AsU8(flagged.v[x] * 2), !.pc = self.pc + 2]

\* 9xy0: skip if VX != VY
Op9xy0(self, x, y) ==
  [self EXCEPT !.pc = IF self.v[x] # self.v[y] THEN self.pc + 4 ELSE self.pc + 2]

\* Annn that adds V0 to the address
OpAnnn_Offset(self, nnn) == [self EXCEPT !.i = nnn + self.v[0], !.pc = self.pc + 2]

\* Annn: I = NNN
OpAnnn(self, nnn) == [self EXCEPT !.i = nnn, !.pc = self.pc + 2]

\* Bnnn with the target reduced to 12 bits
OpBnnn_Wrapped(self, nnn) == [self EXCEPT !.pc = (nnn + self.v[0]) % MAX_MEMORY_SIZE]

\* Bnnn: PC = NNN + V0
OpBnnn(self, nnn) == [self EXCEPT !.pc = nnn + self.v[0]]

\* Cxnn that stores the random byte unmasked
OpCxnn_NoMask(self, x, nn, rand) == [self EXCEPT !.v[x] = rand, !.pc = self.pc + 2]

\* Cxnn: VX = rand & NN
OpCxnn(self, x, nn, rand) ==
  [self EXCEPT !.v[x] = BitAnd(rand, nn), !.pc = self.pc + 2]

\* DrawBits that sets VF on a collision but leaves the cell on (OR, not XOR)
RECURSIVE DrawBits_NoErase(_, _, _, _, _, _)
DrawBits_NoErase(self, x_coord, y_coord, sprite_row, sprite_row_data, sprite_bit) ==
  IF sprite_bit >= 8 THEN self
  ELSE IF x_coord + sprite_bit >= DISPLAY_WIDTH THEN self
  ELSE
    LET current_bit == BitAnd(128 \div Pow2(sprite_bit), sprite_row_data)
        x_y_coord   == (x_coord + sprite_bit) + (y_coord + sprite_row) * DISPLAY_WIDTH
        toggled ==
          IF current_bit # 0
            THEN IF x_y_coord \in self.display
                   THEN [self EXCEPT !.v[15] = 1]
                   ELSE [self EXCEPT !.display = self.display \cup {x_y_coord}]
            ELSE self
    IN  DrawBits_NoErase(toggled, x_coord, y_coord, sprite_row, sprite_row_data,
                         sprite_bit + 1)

\* DrawBits that turns a lit cell off without recording the collision in VF
RECURSIVE DrawBits_NoFlag(_, _, _, _, _, _)
DrawBits_NoFlag(self, x_coord, y_coord, sprite_row, sprite_row_data, sprite_bit) ==
  IF sprite_bit >= 8 THEN self
  ELSE IF x_coord + sprite_bit >= DISPLAY_WIDTH THEN self
  ELSE
    LET current_bit == BitAnd(128 \div Pow2(sprite_bit), sprite_row_data)
        x_y_coord   == (x_coord + sprite_bit) + (y_coord + sprite_row) * DISPLAY_WIDTH
        toggled ==
          IF current_bit # 0
            THEN IF x_y_coord \in self.display
                   THEN [self EXCEPT !.display = self.display \ {x_y_coord}]
                   ELSE [self EXCEPT !.display = self.display \cup {x_y_coord}]
            ELSE self
    IN  DrawBits_NoFlag(toggled, x_coord, y_coord, sprite_row, sprite_row_data,
                        sprite_bit + 1)

\* DrawBits without the break at the right edge: the index runs on into the
\* next display row
RECURSIVE DrawBits_NoClip(_, _, _, _, _, _)
DrawBits_NoClip(self, x_coord, y_coord, sprite_row, sprite_row_data, sprite_bit) ==
  IF sprite_bit >= 8 THEN self
  ELSE
    LET current_bit == BitAnd(128 \div Pow2(sprite_bit), sprite_row_data)
        x_y_coord   == ((x_coord + sprite_bit) + (y_coord + sprite_row) * DISPLAY_WIDTH)
                         % MAX_DISPLAY_SIZE
        toggled ==
          IF current_bit # 0
            THEN IF x_y_coord \in self.display
                   THEN [self EXCEPT !.display = self.display \ {x_y_coord}, !.v[15] = 1]
                   ELSE [self EXCEPT !.display = self.display \cup {x_y_coord}]
            ELSE self
    IN  DrawBits_NoClip(toggled, x_coord, y_coord, sprite_row, sprite_row_data,
                        sprite_bit + 1)

\* DrawBits that takes the sprite bits from the least significant one
RECURSIVE DrawBits_LsbFirst(_, _, _, _, _, _)
DrawBits_LsbFirst(self, x_coord, y_coord, sprite_row, sprite_row_data, sprite_bit) ==
  IF sprite_bit >= 8 THEN self
  ELSE IF x_coord + sprite_bit >= DISPLAY_WIDTH THEN self
  ELSE
    LET current_bit == BitAnd(Pow2(sprite_bit), sprite_row_data)
        x_y_coord   == (x_coord + sprite_bit) + (y_coord + sprite_row) * DISPLAY_WIDTH
        toggled ==
          IF current_bit # 0
            THEN IF x_y_coord \in self.display
                   THEN [self EXCEPT !.display = self.display \ {x_y_coord}, !.v[15] = 1]
                   ELSE [self EXCEPT !.display = self.display \cup {x_y_coord}]
            ELSE self
    IN  DrawBits_LsbFirst(toggled, x_coord, y_coord, sprite_row, sprite_row_data,
                          sprite_bit + 1)

\* Dxyn: the loop over the 8 bits of one sprite row
RECURSIVE DrawBits(_, _, _, _, _, _)
DrawBits(self, x_coord, y_coord, sprite_row, sprite_row_data, sprite_bit) ==
  IF sprite_bit >= 8 THEN self
  ELSE IF x_coord + sprite_bit >= DISPLAY_WIDTH THEN self
  ELSE
    LET current_bit == BitAnd(128 \div Pow2(sprite_bit), sprite_row_data)
        x_y_coord   == (x_coord + sprite_bit) + (y_coord + sprite_row) * DISPLAY_WIDTH
        toggled ==
          IF current_bit # 0
            THEN IF x_y_coord \in self.display
                   THEN [self EXCEPT !.display = self.display \ {x_y_coord}, !.v[15] = 1]
                   ELSE [self EXCEPT !.display = self.display \cup {x_y_coord}]
            ELSE self
    IN  DrawBits(toggled, x_coord, y_coord, sprite_row, sprite_row_data, sprite_bit + 1)

\* Dxyn: the loop over the sprite rows; the sprite byte is read with a
\* bounds-checked index, so a row at or beyond the end of memory panics
\* after the rows before it have been drawn
RECURSIVE DrawRows(_, _, _, _, _)
DrawRows(self, x_coord, y_coord, heigth, sprite_row) ==
  IF sprite_row >= heigth THEN self
  ELSE IF y_coord + sprite_row >= DISPLAY_HEIGTH THEN self
  ELSE IF self.i + sprite_row >= MAX_MEMORY_SIZE THEN Panic(self, "index_out_of_bounds")
  ELSE DrawRows(DrawBits(self, x_coord, y_coord, sprite_row,
                         ReadMem(memory, self.i + sprite_row), 0),
                x_coord, y_coord, heigth, sprite_row + 1)

\* Dxyn that raises the redraw flag only when a cell changed
OpDxyn_FlagIfChanged(self, x, y, n) ==
  LET x_coord == self.v[x] % DISPLAY_WIDTH
      y_coord == self.v[y] % DISPLAY_HEIGTH
      reset   == [self EXCEPT !.v[15] = 0]
      drawn   == DrawRows(reset, x_coord, y_coord, n, 0)
  IN  IF drawn.panic # "none" THEN drawn
      ELSE [drawn EXCEPT !.draw = (self.draw \/ drawn.display # self.display),
                         !.pc = self.pc + 2]

\* Dxyn: display
OpDxyn(self, x, y, n) ==
  LET x_coord == self.v[x] % DISPLAY_WIDTH
      y_coord == self.v[y] % DISPLAY_HEIGTH
      reset   == [self EXCEPT !.v[15] = 0]
      drawn   == DrawRows(reset, x_coord, y_coord, n, 0)
  IN  IF drawn.panic # "none" THEN drawn
      ELSE [drawn EXCEPT !.draw = TRUE, !.pc = self.pc + 2]

\* an unknown instruction word skipped instead of reported
IllegalOpcode_Skip(self) == [self EXCEPT !.pc = self.pc + 2]

\* panic_illegal_opcode and panic_illegal_opcode_category
IllegalOpcode(self) == Panic(self, "illegal_opcode")

\* the match on the first nibble and, inside, on nnn or n
Execute(self, rand) ==
  LET op  == DecodeOp(self.opcode)
      x   == DecodeX(self.opcode)
      y   == DecodeY(self.opcode)
      n   == DecodeN(self.opcode)
      nn  == DecodeNN(self.opcode)
      nnn == DecodeNNN(self.opcode)
  IN  CASE op = 0     -> (CASE nnn = 224 -> Op00E0(self)
                            [] nnn = 238 -> Op00EE(self)
                            [] OTHER     -> IllegalOpcode(self))
        [] op = 4096  -> Op1nnn(self, nnn)
        [] op = 8192  -> Op2nnn(self, nnn)
        [] op = 12288 -> Op3xnn(self, x, nn)
        [] op = 16384 -> Op4xnn(self, x, nn)
        [] op = 20480 -> (IF n = 0 THEN Op5xy0(self, x, y) ELSE IllegalOpcode(self))
        [] op = 24576 -> Op6xnn(self, x, nn)
        [] op = 28672 -> Op7xnn(self, x, nn)
        [] op = 32768 -> (CASE n = 0  -> Op8xy0(self, x, y)
                            [] n = 1  -> Op8xy1(self, x, y)
                            [] n = 2  -> Op8xy2(self, x, y)
                            [] n = 3  -> Op8xy3(self, x, y)
                            [] n = 4  -> Op8xy4(self, x, y)
                            [] n = 5  -> Op8xy5(self, x, y)
                            [] n = 6  -> Op8xy6(self, x, y)
                            [] n = 7  -> Op8xy7(self, x, y)
                            [] n = 14 -> Op8xyE(self, x, y)
                            [] OTHER  -> IllegalOpcode(self))
        [] op = 36864 -> (IF n = 0 THEN Op9xy0(self, x, y) ELSE IllegalOpcode(self))
        [] op = 40960 -> OpAnnn(self, nnn)
        [] op = 45056 -> OpBnnn(self, nnn)
        [] op = 49152 -> OpCxnn(self, x, nn, rand)
        [] op = 53248 -> OpDxyn(self, x, y, n)
        [] OTHER      -> IllegalOpcode(self)

\* one cycle: fetch, decode, execute
emulate_cycle(self, rand) ==
  LET fetched == Fetch(self)
  IN  IF fetched.panic # "none" THEN fetched ELSE Execute(fetched, rand)

\* ------------------------------------------------------------------------
\* Chip8::new, load_fontset, load_rom
\* ------------------------------------------------------------------------
\* memory after the bytes at the addresses of `bytes` have been overwritten
WriteMem(mem, bytes) ==
  LET byteAt(a) == IF a \in DOMAIN bytes THEN bytes[a] ELSE mem[a]
  IN  [a \in {b \in DOMAIN mem \cup DOMAIN bytes : byteAt(b) # 0} |-> byteAt(a)]

\* load_fontset whose loop stops one byte early
load_fontset_Short(mem) == WriteMem(mem, [a \in 0 .. 78 |-> CHIP8_FONTSET[a + 1]])

load_fontset(mem) == WriteMem(mem, [a \in 0 .. 79 |-> CHIP8_FONTSET[a + 1]])

\* a machine constructed with a running delay timer
New_TimersSet ==
  [ rom_loaded |-> FALSE,
    opcode     |-> 0,
    memory     |-> load_fontset(<< >>),
    v          |-> [k \in 0 .. V_SIZE - 1 |-> 0],
    i          |-> 0,
    pc         |-> ROM_START,
    display    |-> {},
    draw       |-> FALSE,
    stack      |-> [k \in 0 .. MAX_STACK_SIZE - 1 |-> 0],
    sp         |-> 0,
    timers     |-> [delay_timer |-> 60, sound_timer |-> 0] ]

New ==
  [ rom_loaded |-> FALSE,
    opcode     |-> 0,
    memory     |-> load_fontset(<< >>),
    v          |-> [k \in 0 .. V_SIZE - 1 |-> 0],
    i          |-> 0,
    pc         |-> ROM_START,
    display    |-> {},
    draw       |-> FALSE,
    stack      |-> [k \in 0 .. MAX_STACK_SIZE - 1 |-> 0],
    sp         |-> 0,
    timers     |-> [delay_timer |-> 0, sound_timer |-> 0] ]

\* byte k (from 0) of a file whose first bytes are `code` and whose other
\* bytes, up to `len`, are zero
FileByte(file, k) == IF k < Len(file.code) THEN file.code[k + 1] ELSE 0

\* the copy loop of load_rom stopping one byte early
CopyRom_SkipsLast(mem, file) ==
  LET copied == { a \in ROM_START .. ROM_START + file.len - 2 : a < MAX_MEMORY_SIZE }
  IN  WriteMem(mem, [a \in copied |-> FileByte(file, a - ROM_START)])

\* the copy loop of load_rom; memory[k + 0x200] is a bounds-checked index, so
\* the loop panics at the first byte that does not fit, after it has copied
\* the bytes before it
CopyRom(mem, file) ==
  LET copied == { a \in ROM_START .. ROM_START + file.len - 1 : a < MAX_MEMORY_SIZE }
  IN  WriteMem(mem, [a \in copied |-> FileByte(file, a - ROM_START)])

RomFits(file) == file.len + ROM_START <= MAX_MEMORY_SIZE

\* ------------------------------------------------------------------------
\* The ROM files and command lines the model runs
\* ------------------------------------------------------------------------
File(ops) == [readable |-> TRUE, code |-> Assemble(ops), len |-> 2 * Len(ops)]

\* register indexes and register values tried
Regs == {0, 1, 15}

Vals == {0, 1, 2, 128, 255}

\* the bytes the random source may return
RandBytes == {0, 90, 255}

\* the instructions tried on registers x, y holding a, b
OpsFor(x, y, b) ==
  { Op4(8, x, y, n) : n \in 0 .. 15 }
    \cup { OpXNN(3, x, b), OpXNN(4, x, b), OpXNN(7, x, b), OpXNN(12, x, b),
           Op4(5, x, y, 0), Op4(5, x, y, 1), Op4(9, x, y, 0), Op4(9, x, y, 1),
           OpNNN(11, 768), OpNNN(11, 4095) }

\* set VX = a, VY = b, then one instruction on them
AluRomsOn(x, y, a, b) ==
  { File(<< OpXNN(6, x, a), OpXNN(6, y, b), op >>) : op \in OpsFor(x, y, b) }

AluRoms ==
  UNION { AluRomsOn(q[1], q[2], q[3], q[4]) : q \in Regs \X Regs \X Vals \X Vals }

\* d nested calls, each to the next word, then a return
RECURSIVE CallChain(_, _)
CallChain(k, d) ==
  IF k > d THEN << 238 >>
  ELSE << OpNNN(2, ROM_START + 2 * k) >> \o CallChain(k + 1, d)

\* deepest call chain tried
MaxDepth == 16

ChainRoms == { File(CallChain(1, d)) : d \in 1 .. MaxDepth }

\* every program of up to three words over a few calls, returns and a jump
FlowOps == { OpNNN(2, 512), OpNNN(2, 514), OpNNN(2, 516), 238, OpNNN(1, 512) }

FlowRoms ==
  { File(<< a >>) : a \in FlowOps }
    \cup { File(<< a, b >>) : a \in FlowOps, b \in FlowOps }
    \cup { File(<< a, b, c >>) : a \in FlowOps, b \in FlowOps, c \in FlowOps }

\* where sprites are read from: glyph 0, glyph F, the program itself, and the
\* last two bytes of memory
DrawIs == {0, 75, 512, 4094}

DrawXs == {0, 60, 70}

DrawYs == {0, 29, 33}

DrawNs == {0, 1, 5, 15}

DrawRegs == { << 0, 1 >>, << 15, 1 >>, << 1, 15 >> }

\* set VX, VY, optionally draw glyph 0 there, set I, draw the same sprite twice
DrawRom(r, a, b, pre, idx, n) ==
  File(<< OpXNN(6, r[1], a), OpXNN(6, r[2], b) >>
         \o (IF pre THEN << Op4(13, r[1], r[2], 5) >> ELSE << >>)
         \o << OpNNN(10, idx), Op4(13, r[1], r[2], n), Op4(13, r[1], r[2], n) >>)

DrawRoms ==
  { DrawRom(q[1], q[2], q[3], q[4], q[5], q[6]) :
      q \in DrawRegs \X DrawXs \X DrawYs \X BOOLEAN \X DrawIs \X DrawNs }

\* single programs: the three-instruction example, clear screen after a
\* draw, an illegal word, jumps to the end of memory, the empty file
OtherRoms ==
  { File(<< 24581, 28931, 4612 >>),
    File(<< 53253, 224, 4610 >>),
    File(<< 65535 >>),
    File(<< OpNNN(1, 4095) >>),
    File(<< OpNNN(1, 4094) >>),
    File(<< >>) }

\* a program that sets a register and I, draws, calls, and then meets the word w
AfterWork(w) ==
  File(<< OpXNN(6, 14, 7), OpNNN(10, 10), Op4(13, 0, 0, 5), OpNNN(2, 520), w >>)

\* words outside the instruction table
IllegalWords ==
  { 0, 1, 225, 239, 480, 750, 4095,
    Op4(5, 0, 1, 1), Op4(5, 15, 15, 15), Op4(9, 0, 1, 1), Op4(9, 15, 15, 15),
    Op4(8, 0, 1, 8), Op4(8, 0, 1, 9), Op4(8, 0, 1, 10), Op4(8, 0, 1, 11),
    Op4(8, 0, 1, 12), Op4(8, 0, 1, 13), Op4(8, 0, 1, 15),
    OpXNN(14, 0, 158), OpXNN(14, 0, 161), OpXNN(15, 0, 7), OpXNN(15, 1, 101), 65535 }

IllegalRoms ==
  { File(<< w >>) : w \in IllegalWords } \cup { AfterWork(w) : w \in IllegalWords }

\* programs that clear the screen: at once, after a draw, after a draw and a call
ClearRoms ==
  { File(<< 224 >>), AfterWork(224) }
    \cup { File(<< OpXNN(6, 0, q[1]), OpXNN(6, 1, q[2]), OpNNN(10, q[3]),
                   Op4(13, 0, 1, q[4]), 224 >>) :
             q \in DrawXs \X DrawYs \X {0, 75} \X {5, 15} }

\* a file that fills the program space: it draws the 5-row sprite at 0xFFE, and
\* every byte after the two instructions is 0xFF
SpriteAtEnd ==
  [ readable |-> TRUE,
    code     |-> Assemble(<< OpNNN(10, 4094), Op4(13, 0, 1, 5) >>)
                   \o [k \in 1 .. MAX_MEMORY_SIZE - ROM_START - 4 |-> 255],
    len      |-> MAX_MEMORY_SIZE - ROM_START ]

\* programs that mix instructions of several kinds: set, add, jump; set, set
\* I, draw, call, then clear the screen or return
MixRoms == { File(<< 24581, 28931, 4612 >>), AfterWork(224), AfterWork(238) }

\* programs that jump, call or jump with offset to an address below 0x200
LowRoms ==
  { File(<< OpNNN(1, 0) >>), File(<< OpNNN(2, 80) >>), File(<< OpNNN(11, 0) >>) }

\* categories and last nibbles of the one-word programs of the decode family
DecodeCats == {7, 8, 13}

DecodeNs == {0, 3, 14}

\* one-word programs with every x and every y
DecodeRoms ==
  { File(<< Op4(q[1], q[2], q[3], q[4]) >>) :
      q \in DecodeCats \X (0 .. 15) \X (0 .. 15) \X DecodeNs }

\* programs that send the program counter to the end of memory and beyond
FetchRoms ==
  { File(<< OpNNN(1, 4093) >>),
    File(<< OpXNN(6, 0, 1), OpNNN(11, 4094) >>),
    File(<< OpXNN(6, 0, 1), OpNNN(11, 4095) >>),
    File(<< OpXNN(6, 0, 255), OpNNN(11, 4095) >>) }

\* a file one byte longer than the program space, and a file that cannot be read
BadFiles ==
  { [readable |-> TRUE, code |-> << 18, 0 >>, len |-> MAX_MEMORY_SIZE - ROM_START + 1],
    [readable |-> FALSE, code |-> << >>, len |-> 0] }

\* the largest file that fits
FullFile ==
  [readable |-> TRUE, code |-> << 18, 0 >>, len |-> MAX_MEMORY_SIZE - ROM_START]

Files == AluRoms \cup ChainRoms \cup FlowRoms \cup DrawRoms \cup OtherRoms
           \cup IllegalRoms \cup ClearRoms \cup FetchRoms \cup {SpriteAtEnd}
           \cup MixRoms \cup LowRoms
           \cup BadFiles \cup {FullFile}

\* command lines: every file free-running, some also one step at a time
\* the default of the option --random-seed and the other seeds tried
DefaultSeed == 10

Seeds == {DefaultSeed, 11, 12}

\* the file holds a Cxnn instruction word
HasRand(f) == \E k \in 1 .. Len(f.code) : k % 2 = 1 /\ f.code[k] \div 16 = 12

\* the seed matters only to a program that asks for random bytes
SeedsFor(f) == IF HasRand(f) THEN Seeds ELSE {DefaultSeed}

\* durations of a loop iteration, in milliseconds: a host on which every
\* iteration takes 1 ms, and a host on which it takes any of these
FastHost == {1}

AnyHost == {0, 1, 2, 3, 5}

Args(files, stepped) ==
  UNION { { [rom |-> f, stepping |-> FALSE, seed |-> sd, host |-> FastHost] :
              sd \in SeedsFor(f) } : f \in files }
    \cup { [rom |-> f, stepping |-> TRUE, seed |-> DefaultSeed, host |-> FastHost] :
             f \in stepped }

AluStepped == AluRomsOn(0, 1, 1, 2)

\* programs for the loop of run: no drawing; draw, clear, loop; draw, loop;
\* three random bytes, loop; two masked random bytes and a set, loop; an
\* illegal word
SchedRoms ==
  { File(<< 24581, 28931, 4612 >>),
    File(<< 53253, 224, 4610 >>),
    File(<< 53253, 4610 >>),
    File(<< OpXNN(12, 0, 255), OpXNN(12, 1, 255), OpXNN(12, 0, 15), 4608 >>),
    File(<< OpXNN(12, 0, 0), OpXNN(12, 1, 128), OpXNN(6, 2, 7), 4608 >>),
    File(<< 65535 >>) }

\* every program of the loop family free-running and one step at a time, with
\* every seed it can tell apart, on a host of any speed
SchedArgs ==
  { [rom |-> q[1], stepping |-> q[2], seed |-> q[3], host |-> AnyHost] :
      q \in { r \in SchedRoms \X BOOLEAN \X Seeds : r[3] \in SeedsFor(r[1]) } }

FlowStepped == { File(CallChain(1, 1)), File(<< 238 >>) }

DrawStepped == { DrawRom(<< 0, 1 >>, 60, 29, TRUE, 75, 5) }

CliArgs ==
  Args(Files, OtherRoms \cup AluStepped \cup FlowStepped \cup DrawStepped) \cup SchedArgs

\* lines read at the stepping prompt, one string per character
Lines == { << "n", "\n" >>, << " ", "q", "\n" >>, << "x", "\n" >>, << "\n" >>, << >> }

IsSpace(c) == c \in {" ", "\n", "\t", "\r"}

RECURSIVE TrimStart(_)
TrimStart(line) ==
  IF line # << >> /\ IsSpace(Head(line)) THEN TrimStart(Tail(line)) ELSE line

RECURSIVE TrimEnd(_)
TrimEnd(line) ==
  IF line # << >> /\ IsSpace(line[Len(line)])
    THEN TrimEnd(SubSeq(line, 1, Len(line) - 1))
    ELSE line

\* a trim that removes nothing
Trim_Nothing(line) == line

\* str::trim
Trim(line) == TrimEnd(TrimStart(line))

\* ------------------------------------------------------------------------
\* Init and the actions
\* ------------------------------------------------------------------------
InitWith(cli) ==
  /\ overflow_checks \in BOOLEAN
  /\ \E c \in cli :
       /\ args = [rom |-> c.rom, stepping |-> c.stepping, seed |-> c.seed]
       /\ host = c.host
  /\ rom_loaded = New.rom_loaded
  /\ opcode = New.opcode
  /\ memory = New.memory
  /\ v = New.v
  /\ i = New.i
  /\ pc = New.pc
  /\ display = New.display
  /\ draw = New.draw
  /\ stack = New.stack
  /\ sp = New.sp
  /\ timers = New.timers
  /\ status = "new"
  /\ panic = "none"
  /\ cycles = 0
  /\ emitted = FALSE
  /\ hist = << >>
  /\ calls = << >>
  /\ draws = 0
  /\ elapsed = 0
  /\ slept = 0
  /\ next = << >>

\* Chip8::load_rom(&ARGS.rom)
LoadRom ==
  /\ status = "new"
  /\ ~rom_loaded
  /\ IF ~args.rom.readable
       THEN /\ panic' = "io"
            /\ status' = "panicked"
            /\ UNCHANGED << memory, rom_loaded >>
       ELSE /\ memory' = CopyRom(memory, args.rom)
            /\ IF RomFits(args.rom)
                 THEN rom_loaded' = TRUE /\ UNCHANGED << panic, status >>
                 ELSE /\ panic' = "index_out_of_bounds"
                      /\ status' = "panicked"
                      /\ UNCHANGED rom_loaded
  /\ UNCHANGED << overflow_checks, args, opcode, v, i, pc, display, draw, stack,
                  sp, timers, cycles, emitted, hist, calls, host, draws, elapsed,
                  slept, next >>

\* run without the check of rom_loaded
Run_Unchecked ==
  /\ status = "new"
  /\ status' = "running" /\ UNCHANGED panic
  /\ UNCHANGED << overflow_checks, args, rom_loaded, opcode, memory, v, i, pc,
                  display, draw, stack, sp, timers, cycles, emitted, hist, calls,
                  host, draws, elapsed, slept, next >>

\* Chip8::run, up to the loop
Run ==
  /\ status = "new"
  /\ IF ~rom_loaded
       THEN panic' = "rom_not_loaded" /\ status' = "panicked"
       ELSE status' = "running" /\ UNCHANGED panic
  /\ UNCHANGED << overflow_checks, args, rom_loaded, opcode, memory, v, i, pc,
                  display, draw, stack, sp, timers, cycles, emitted, hist, calls,
                  host, draws, elapsed, slept, next >>

\* the next instruction word is Cxnn, the only arm that asks the random
\* source for a byte
NextIsRand == pc + 1 < MAX_MEMORY_SIZE /\ ReadMem(memory, pc) \div 16 = 12

\* byte number k of the generator seeded with `seed`: StdRng is a function of
\* its seed, and this sequence over RandBytes stands for its output
RandStream == << 0, 90, 255 >>

Gen(seed, k) == RandStream[((seed + k) % Len(RandStream)) + 1]

\* a generator seeded from the entropy of the host: any byte at any time
RandChoices_FromEntropy == IF NextIsRand THEN RandBytes ELSE {0}

\* the byte the generator made by run from the seed hands to the cycle
RandChoices == IF NextIsRand THEN { Gen(args.seed, draws) } ELSE {0}

\* the target period, 1 / 500 s, in milliseconds
ChipClockTime == 2

\* the argument of thread::sleep after an iteration that took e, 0 for none
Pace(e) == IF e > ChipClockTime THEN e - ChipClockTime ELSE 0

\* the fields of the machine before a cycle, kept for the properties
Snapshot == [ m |-> Self, calls |-> calls ]

\* the pending call sites after a cycle that took `before` to `after`
CallsAfter(before, after) ==
  IF after.panic # "none" THEN calls
  ELSE IF DecodeOp(after.opcode) = 8192 THEN Append(calls, before.pc)
  ELSE IF after.opcode = 238 /\ calls # << >> THEN SubSeq(calls, 1, Len(calls) - 1)
  ELSE calls

\* one iteration of the loop of run, up to the stepping prompt
Cycle ==
  /\ status = "running"
  /\ cycles < MaxCycles
  /\ \E rand \in RandChoices :
     \E after \in { emulate_cycle(Self, rand) } :
           /\ opcode' = after.opcode
           /\ v' = after.v
           /\ i' = after.i
           /\ pc' = after.pc
           /\ display' = after.display
           /\ draw' = after.draw
           /\ stack' = after.stack
           /\ sp' = after.sp
           /\ panic' = after.panic
           /\ status' = IF after.panic # "none" THEN "panicked"
                        ELSE IF args.stepping THEN "prompt" ELSE "running"
           /\ emitted' = (after.panic = "none" /\ after.draw)
           /\ calls' = CallsAfter(Self, after)
           /\ IF after.panic # "none"
                THEN UNCHANGED << elapsed, slept >>
                ELSE \E e \in host : elapsed' = e /\ slept' = Pace(e)
  /\ draws' = IF NextIsRand THEN draws + 1 ELSE draws
  /\ next' = << >>
  /\ cycles' = cycles + 1
  /\ hist' = IF Len(hist) < 2 THEN Append(hist, Snapshot) ELSE << hist[2], Snapshot >>
  /\ UNCHANGED << overflow_checks, args, rom_loaded, memory, timers, host >>

\* a prompt after every iteration, stepping or not
Prompt_Unguarded ==
  /\ status \in {"prompt", "running"}
  /\ cycles > 0
  /\ \E read \in Lines :
       /\ next' = read
       /\ IF Trim(read) = << "n" >> THEN status' = "running" /\ UNCHANGED panic
          ELSE IF Trim(read) = << "q" >> THEN status' = "exited" /\ UNCHANGED panic
          ELSE status' = "panicked" /\ panic' = "illegal_input"
  /\ UNCHANGED << overflow_checks, args, rom_loaded, opcode, memory, v, i, pc,
                  display, draw, stack, sp, timers, cycles, emitted, hist, calls,
                  host, draws, elapsed, slept >>

\* the stepping prompt: read a line, continue on "n", break on "q"
Prompt ==
  /\ status = "prompt"
  /\ \E read \in Lines :
       /\ next' = read
       /\ IF Trim(read) = << "n" >> THEN status' = "running" /\ UNCHANGED panic
          ELSE IF Trim(read) = << "q" >> THEN status' = "exited" /\ UNCHANGED panic
          ELSE status' = "panicked" /\ panic' = "illegal_input"
  /\ UNCHANGED << overflow_checks, args, rom_loaded, opcode, memory, v, i, pc,
                  display, draw, stack, sp, timers, cycles, emitted, hist, calls,
                  host, draws, elapsed, slept >>

Next == LoadRom \/ Run \/ Cycle \/ Prompt

Init == InitWith(CliArgs)

\* every command line of the model
Spec == Init /\ [][Next]_vars

InitAlu == InitWith(Args(AluRoms \cup IllegalRoms \cup MixRoms, AluStepped))

\* the programs that set two registers and execute one instruction on them
SpecAlu == InitAlu /\ [][Next]_vars

InitFlow ==
  InitWith(Args(ChainRoms \cup FlowRoms \cup OtherRoms \cup FetchRoms \cup LowRoms,
                FlowStepped))

\* the programs made of calls, returns and jumps
SpecFlow == InitFlow /\ [][Next]_vars

InitDraw == InitWith(Args(DrawRoms \cup ClearRoms \cup {SpriteAtEnd}, DrawStepped))

\* the programs that draw
SpecDraw == InitDraw /\ [][Next]_vars

InitLoad ==
  InitWith(Args(ChainRoms \cup OtherRoms \cup FetchRoms \cup BadFiles \cup {FullFile},
                FlowStepped))

\* construction and loading: files of every kind, short programs
SpecLoad == InitLoad /\ [][Next]_vars

InitDecode == InitWith(Args(DecodeRoms, { File(<< 28931 >>) }))

\* one-word programs: every register index in both positions
SpecDecode == InitDecode /\ [][Next]_vars

InitSched == InitWith(SchedArgs)

\* the loop of run: pacing, emission of the display, stepping, random bytes
SpecSched == InitSched /\ [][Next]_vars

\* ------------------------------------------------------------------------
\* Vocabulary of the properties
\* ------------------------------------------------------------------------
\* run has called emulate_cycle at least once
Ran == cycles > 0

\* the machine before the last cycle, and before the one before it
Before == hist[Len(hist)].m

Before2 == hist[1].m

\* the last cycle fetched an instruction word (it is in `opcode`)
Fetched == Ran /\ Before.pc + 1 < MAX_MEMORY_SIZE

\* the last cycle panicked / ran to its end
CyclePanicked ==
  Ran /\ panic \in {"illegal_opcode", "index_out_of_bounds", "arithmetic_overflow"}

CycleOk == Ran /\ ~CyclePanicked

\* the fields of the last instruction word
X == DecodeX(opcode)

Y == DecodeY(opcode)

\* the last cycle executed 8xyN with this N
Is8xy(n) == Fetched /\ DecodeOp(opcode) = 32768 /\ DecodeN(opcode) = n

IsCall == Fetched /\ DecodeOp(opcode) = 8192

IsReturn == Fetched /\ opcode = 238

IsDraw == Fetched /\ DecodeOp(opcode) = 53248

\* ------------------------------------------------------------------------
\* Properties
\* ------------------------------------------------------------------------
\* C1: when a 00EE has been executed, PC is the address of the matching 2nnn
\* plus 2, the instruction right after the call.
C1_ReturnResumesAfterCall ==
  (IsReturn /\ CycleOk /\ hist[Len(hist)].calls # << >>)
    => pc = hist[Len(hist)].calls[Len(hist[Len(hist)].calls)] + 2

\* C2: a 2nnn executed with sp = 16 panics and leaves sp, the stack and PC as
\* they were; a 2nnn executed with sp < 16 does not panic.
C2_CallOverflowFails ==
  IsCall =>
    IF Before.sp >= MAX_STACK_SIZE
      THEN CyclePanicked /\ sp = Before.sp /\ stack = Before.stack /\ pc = Before.pc
      ELSE CycleOk

\* a 2nnn was executed with 16 calls pending
C2_Witness == IsCall /\ Before.sp = MAX_STACK_SIZE /\ CyclePanicked

\* C3: a 00EE executed with sp = 0 panics, sp is still 0 and PC is untouched.
C3_ReturnUnderflowKeepsSp ==
  (IsReturn /\ Before.sp = 0) => (CyclePanicked /\ sp = 0 /\ pc = Before.pc)

C5_AddCarryAnyX ==
  (Is8xy(4) /\ CycleOk) =>
    /\ v[X] = (Before.v[X] + Before.v[Y]) % 256
    /\ v[15] = (IF Before.v[X] + Before.v[Y] > 255 THEN 1 ELSE 0)

\* C5 as amended: 8xy4 never panics and, for every x other than 0xF and
\* every y, V[x] = (a+b) mod 256 and VF = 1 if a+b > 255, else 0.
C5_AddCarry ==
  Is8xy(4) =>
    /\ CycleOk
    /\ X # 15 =>
         /\ v[X] = (Before.v[X] + Before.v[Y]) % 256
         /\ v[15] = (IF Before.v[X] + Before.v[Y] > 255 THEN 1 ELSE 0)

\* an 8xy4 with y = 0xF whose sum carried
C5_Witness ==
  /\ Is8xy(4) /\ CycleOk
  /\ X = 1 /\ Y = 15
  /\ Before.v[X] + Before.v[Y] > 255
  /\ v[15] = 1

\* C6: 8xy5 never panics and leaves V[x] = (a-b) mod 256 and VF = 1 iff
\* a > b (the values are compared for x other than 0xF, where V[x] and VF are
\* two registers).
C6_SubtractCompletes ==
  Is8xy(5) =>
    /\ CycleOk
    /\ X # 15 =>
         /\ v[X] = (Before.v[X] - Before.v[Y]) % 256
         /\ (v[15] = 1) <=> (Before.v[X] > Before.v[Y])

\* the flag each flag-writing arithmetic or shift instruction is to leave
FlagOf(n, a, b) ==
  CASE n = 4  -> (IF a + b > 255 THEN 1 ELSE 0)
    [] n = 5  -> (IF a > b THEN 1 ELSE 0)
    [] n = 6  -> b % 2
    [] n = 7  -> (IF b > a THEN 1 ELSE 0)
    [] n = 14 -> b \div 128

\* C7: after 8xy4, 8xy5, 8xy6, 8xy7, 8xyE with x = 0xF, register 0xF holds
\* the flag; after Dxyn it holds the collision flag.
C7_FlagWriteBackWins ==
  /\ (CycleOk /\ Fetched /\ DecodeOp(opcode) = 32768 /\ X = 15
        /\ DecodeN(opcode) \in {4, 5, 6, 7, 14})
       => v[15] = FlagOf(DecodeN(opcode), Before.v[X], Before.v[Y])
  /\ (CycleOk /\ IsDraw)
       => v[15] = (IF Before.display \ display # {} THEN 1 ELSE 0)

\* C8: after 8xy6 (x other than 0xF), V[x] = V[y] >> 1 and VF = V[y] mod 2.
C8_ShiftRight ==
  (Is8xy(6) /\ CycleOk /\ X # 15) =>
    /\ v[X] = Before.v[Y] \div 2
    /\ v[15] = Before.v[Y] % 2

\* C9: after 8xyE (x other than 0xF), V[x] = (2 * V[y]) mod 256 and VF is
\* bit 7 of V[y].
C9_ShiftLeft ==
  (Is8xy(14) /\ CycleOk /\ X # 15) =>
    /\ v[X] = (2 * Before.v[Y]) % 256
    /\ v[15] = Before.v[Y] \div 128

\* the last two cycles executed the same Dxyn, and V[x], V[y] and I were the
\* same before both
DrewTwice ==
  /\ Len(hist) = 2
  /\ CycleOk /\ IsDraw
  /\ Before.opcode = opcode
  /\ Before.v[X] = Before2.v[X]
  /\ Before.v[Y] = Before2.v[Y]
  /\ Before.i = Before2.i

\* C10: after the same Dxyn has been executed twice in a row on unchanged
\* V[x], V[y], I and sprite bytes, the display is what it was before the first
\* draw, and VF = 1 if the first draw turned a cell on.
C10_DrawTwiceRestores ==
  DrewTwice =>
    /\ display = Before2.display
    /\ (Before.display \ Before2.display # {}) => v[15] = 1

\* a sprite drawn twice over a display that was not blank, the first draw
\* turning some cells on and some off
C10_Witness ==
  /\ DrewTwice
  /\ Before.display \ Before2.display # {}
  /\ Before2.display \ Before.display # {}

\* the clip rectangle of the last Dxyn: first column and row, sprite height
DrawX0 == Before.v[X] % DISPLAY_WIDTH

DrawY0 == Before.v[Y] % DISPLAY_HEIGTH

DrawN == DecodeN(opcode)

\* column and row of a display index
ColOf(c) == c % DISPLAY_WIDTH

RowOf(c) == c \div DISPLAY_WIDTH

\* the display cells of the clip rectangle of a sprite of n rows at (x0, y0)
ClipRect(x0, y0, n) ==
  { col + row * DISPLAY_WIDTH :
      col \in { k \in x0 .. x0 + 7 : k < DISPLAY_WIDTH },
      row \in { k \in y0 .. y0 + n - 1 : k < DISPLAY_HEIGTH } }

\* C11: after a Dxyn that ran to its end, VF = 1 if and only if at least one
\* cell that was on before the draw is off after it, and VF = 0 otherwise,
\* whatever VF held before.
C11_CollisionFlag ==
  (IsDraw /\ CycleOk) =>
    v[15] = (IF Before.display \ display # {} THEN 1 ELSE 0)

\* a draw that turned a lit cell off while VF was 0, so the flag was raised
C11_Witness ==
  /\ IsDraw /\ CycleOk
  /\ Before.display \ display # {}
  /\ Before.v[15] = 0
  /\ v[15] = 1

\* C12: a Dxyn changes only display cells inside its clip rectangle, columns
\* x0 .. min(x0 + 8, 64) - 1 and rows y0 .. min(y0 + n, 32) - 1 with
\* x0 = V[x] mod 64 and y0 = V[y] mod 32; every other cell keeps its value.
C12_DrawClips ==
  (IsDraw /\ Ran) =>
    /\ display \subseteq 0 .. MAX_DISPLAY_SIZE - 1
    /\ \E rect \in { ClipRect(DrawX0, DrawY0, DrawN) } :
         (display \ Before.display) \cup (Before.display \ display) \subseteq rect

\* a sprite with lit bits past the right edge and rows past the bottom edge,
\* drawn at column 60 and row 29
C12_Witness ==
  /\ IsDraw /\ CycleOk
  /\ DrawX0 + 8 > DISPLAY_WIDTH
  /\ DrawY0 + DrawN > DISPLAY_HEIGTH
  /\ display # Before.display
  /\ \E r \in 0 .. DrawN - 1 :
       /\ Before.i + r < MAX_MEMORY_SIZE
       /\ ReadMem(memory, Before.i + r) % 16 # 0

\* the cells of the glyph 0 (F0 90 90 90 F0) drawn at the origin
GlyphZeroAtOrigin ==
  {0, 1, 2, 3, 64, 67, 128, 131, 192, 195, 256, 257, 258, 259}

\* C13: after a Dxyn on a blank display that ran to its end, the cell
\* (x0 + b, y0 + r) of the clip rectangle is on if and only if bit 7 - b of
\* memory[I + r] is set, and VF = 0; with I = 0, n = 5 and V[x] = V[y] = 0 it
\* is the glyph 0.
C13_DrawOnBlank ==
  (IsDraw /\ CycleOk /\ Before.display = {}) =>
    /\ v[15] = 0
    /\ \E x0 \in {DrawX0} : \E y0 \in {DrawY0} : \E idx \in {Before.i} :
         \A c \in ClipRect(x0, y0, DrawN) :
           c \in display <=>
             Bit(ReadMem(memory, idx + (RowOf(c) - y0)), 7 - (ColOf(c) - x0)) = 1
    /\ (Before.i = 0 /\ DrawN = 5 /\ DrawX0 = 0 /\ DrawY0 = 0)
         => display = GlyphZeroAtOrigin

\* the glyph 0 drawn at the origin of a blank display
C13_Witness ==
  /\ IsDraw /\ CycleOk /\ Before.display = {}
  /\ Before.i = 0 /\ DrawN = 5 /\ DrawX0 = 0 /\ DrawY0 = 0
  /\ display = GlyphZeroAtOrigin

\* C14: after 00E0 every display cell is off, the redraw flag is set, PC has
\* advanced by 2, and the registers, I, the stack and sp are unchanged.
C14_ClearScreen ==
  (Fetched /\ opcode = 224) =>
    /\ CycleOk
    /\ display = {}
    /\ draw
    /\ pc = Before.pc + 2
    /\ v = Before.v
    /\ i = Before.i
    /\ stack = Before.stack
    /\ sp = Before.sp

\* a clear screen of a display with lit cells, inside a subroutine
C14_Witness ==
  /\ Fetched /\ opcode = 224 /\ CycleOk
  /\ Before.display # {}
  /\ Before.sp > 0
  /\ display = {}

\* the words outside the instruction table: 0nnn other than 00E0 and 00EE,
\* 5xyn and 9xyn with n # 0, 8xyn with n in 8 .. D or F, Ennn and Fnnn
OutsideTable(w) ==
  \/ w \div 4096 = 0 /\ w \notin {224, 238}
  \/ w \div 4096 \in {5, 9} /\ w % 16 # 0
  \/ w \div 4096 = 8 /\ w % 16 \in {8, 9, 10, 11, 12, 13, 15}
  \/ w \div 4096 \in {14, 15}

\* C15: a cycle that fetches a word outside the instruction table ends with
\* the illegal-opcode error, and V, I, PC, the stack, sp, the display, the
\* memory and the redraw flag are what they were before the cycle.
C15_IllegalOpcodeChangesNothing ==
  (Fetched /\ OutsideTable(opcode)) =>
    /\ panic = "illegal_opcode"
    /\ v = Before.v
    /\ i = Before.i
    /\ pc = Before.pc
    /\ stack = Before.stack
    /\ sp = Before.sp
    /\ display = Before.display
    /\ draw = Before.draw
    /\ memory = CopyRom(New.memory, args.rom)

\* the word 0xFFFF met inside a subroutine, after a register and I have been
\* set and a sprite drawn
C15_Witness ==
  /\ Fetched /\ opcode = 65535
  /\ panic = "illegal_opcode"
  /\ Before.display # {} /\ Before.sp > 0 /\ Before.i # 0 /\ Before.v[14] # 0

\* C16: a cycle that fails leaves V, I, PC, the stack, sp, the display and the
\* redraw flag as they were before it.
C16_FailingCycleChangesNothing ==
  CyclePanicked =>
    /\ v = Before.v
    /\ i = Before.i
    /\ pc = Before.pc
    /\ stack = Before.stack
    /\ sp = Before.sp
    /\ display = Before.display
    /\ draw = Before.draw

\* a Dxyn that failed at a sprite row beyond the end of memory after it had
\* drawn the rows before it
C16_PartialSprite ==
  /\ CyclePanicked /\ IsDraw
  /\ display # Before.display

\* C17: a cycle that starts with PC >= 4095 fails with the out-of-bounds
\* error and forms no instruction word; a cycle that starts with PC <= 4094
\* fetches memory[PC] * 256 + memory[PC + 1].
C17_FetchBoundsChecked ==
  Ran =>
    IF Before.pc >= MAX_MEMORY_SIZE - 1
      THEN /\ panic = "index_out_of_bounds"
           /\ opcode = Before.opcode
           /\ pc = Before.pc
      ELSE opcode = ReadMem(memory, Before.pc) * 256 + ReadMem(memory, Before.pc + 1)

\* a cycle started with PC = 4095, the last address of memory
C17_Witness ==
  /\ Ran
  /\ Before.pc = MAX_MEMORY_SIZE - 1
  /\ panic = "index_out_of_bounds"

\* a step of load_rom on a readable file (the other step from the state after
\* construction is run, which fails with "ROM is not loaded")
LoadRomStep ==
  /\ status = "new" /\ ~rom_loaded
  /\ args.rom.readable
  /\ panic' # "rom_not_loaded"

\* the fields of the machine other than memory and rom_loaded keep their values
LoadKeepsMachine ==
  UNCHANGED << opcode, v, i, pc, display, draw, stack, sp, timers >>

\* C18: loading a ROM of length L <= 3584 copies byte k of the file to
\* memory[0x200 + k] for every k < L, sets rom_loaded, and changes no other
\* byte of memory and no other field of the machine.
C18_LoadRomCopies ==
  [][ (LoadRomStep /\ args.rom.len <= 3584) =>
        /\ rom_loaded'
        /\ panic' = "none"
        /\ DOMAIN memory' \subseteq 0 .. MAX_MEMORY_SIZE - 1
        /\ \A a \in 0 .. MAX_MEMORY_SIZE - 1 :
             ReadMem(memory', a) =
               IF 512 <= a /\ a < 512 + args.rom.len
                 THEN FileByte(args.rom, a - 512)
                 ELSE ReadMem(memory, a)
        /\ LoadKeepsMachine ]_vars

\* the machine after the largest ROM that fits, 3584 bytes, has been loaded
C18_Witness ==
  /\ rom_loaded /\ status = "new"
  /\ args.rom.len = 3584
  /\ ReadMem(memory, 512) = 18

\* C19: loading a ROM of length L > 3584 fails with an error, writes no byte
\* into memory and leaves rom_loaded false.
C19_OversizedRomRejected ==
  [][ (LoadRomStep /\ args.rom.len > 3584) =>
        /\ panic' # "none"
        /\ memory' = memory
        /\ ~rom_loaded' ]_vars

\* C20: after construction memory[0 .. 79] is the font table and
\* memory[80 .. 4095] is zero, all 16 registers, I, sp, the 16 stack slots and
\* both timers are 0, PC = 0x200, every display cell is off, and rom_loaded
\* and the redraw flag are false.
C20_FreshMachine ==
  (status = "new" /\ ~rom_loaded) =>
    /\ DOMAIN memory \subseteq 0 .. 4095
    /\ \A a \in 0 .. 79 : ReadMem(memory, a) = CHIP8_FONTSET[a + 1]
    /\ \A a \in 80 .. 4095 : ReadMem(memory, a) = 0
    /\ v = [k \in 0 .. 15 |-> 0]
    /\ i = 0
    /\ pc = 512
    /\ sp = 0
    /\ stack = [k \in 0 .. 15 |-> 0]
    /\ display = {}
    /\ timers = [delay_timer |-> 0, sound_timer |-> 0]
    /\ draw = FALSE

\* the machine after construction, with the last font byte at address 79
C20_Witness ==
  /\ status = "new" /\ ~rom_loaded /\ cycles = 0
  /\ ReadMem(memory, 79) = 128
  /\ pc = 512

\* the program 60 05 71 03 12 04
ThreeInstructions == File(<< 24581, 28931, 4612 >>)

\* C21: on a fresh machine loaded with 60 05 71 03 12 04, three cycles from
\* PC = 0x200 raise no error and end with V0 = 5, V1 = 3, PC = 0x204 and all
\* other registers 0; every further cycle leaves the whole state unchanged.
C21_ThreeInstructions ==
  (args.rom = ThreeInstructions /\ cycles >= 3) =>
    /\ panic = "none"
    /\ v = [k \in 0 .. 15 |-> IF k = 0 THEN 5 ELSE IF k = 1 THEN 3 ELSE 0]
    /\ pc = 516
    /\ i = 0 /\ sp = 0 /\ display = {}
    /\ stack = [k \in 0 .. 15 |-> 0]
    /\ cycles > 3 => Self = Before

\* the program after its fourth cycle, a second execution of the jump to itself
C21_Witness ==
  /\ args.rom = ThreeInstructions
  /\ cycles = 4
  /\ pc = 516 /\ v[0] = 5 /\ v[1] = 3

\* C22: run on a machine whose rom_loaded flag is false fails at once and
\* executes no cycle, and no cycle is ever executed while rom_loaded is false.
C22_RunNeedsRom ==
  /\ Ran => rom_loaded
  /\ status \in {"running", "prompt", "exited"} => rom_loaded
  /\ panic = "rom_not_loaded" =>
       /\ status = "panicked" /\ ~rom_loaded /\ cycles = 0
       /\ memory = New.memory
       /\ opcode = New.opcode /\ v = New.v /\ i = New.i /\ pc = New.pc
       /\ display = New.display /\ draw = New.draw
       /\ stack = New.stack /\ sp = New.sp

\* run called on the machine as constructed, before any ROM was loaded
C22_Witness ==
  /\ panic = "rom_not_loaded"
  /\ status = "panicked"
  /\ ~rom_loaded

\* the characters of a line that are not white space
NotSpace(c) == c \notin {" ", "\n", "\t", "\r"}

Word(l) == SelectSeq(l, NotSpace)

\* the fields of the machine keep their values
MachineKept ==
  UNCHANGED << opcode, memory, v, i, pc, display, draw, stack, sp, timers >>

\* C23: in stepping mode every cycle is followed by one confirmation; the
\* input n leads to one more cycle, the input q ends run normally with no
\* further cycle and the machine as the last cycle left it, and any other
\* input, the empty one included, is a fatal error.
C23_SingleStep ==
  [][ /\ (args.stepping /\ status = "running") =>
           /\ cycles' = cycles + 1
           /\ status' \in {"prompt", "panicked"}
      /\ status = "prompt" =>
           /\ cycles' = cycles
           /\ MachineKept
           /\ Word(next') = << "n" >> => status' = "running" /\ panic' = "none"
           /\ Word(next') = << "q" >> => status' = "exited" /\ panic' = "none"
           /\ Word(next') \notin { << "n" >>, << "q" >> } =>
                status' = "panicked" /\ panic' = "illegal_input"
      /\ status # "exited" ]_vars

\* a stepped run that was advanced once and then terminated
C23_Witness ==
  /\ args.stepping
  /\ status = "exited"
  /\ cycles = 2
  /\ Word(next) = << "q" >>

\* C24: the display is emitted in an iteration if and only if the cycle of
\* that iteration executed 00E0 or Dxyn, and the redraw flag is cleared
\* before the next cycle.
C24_RedrawConsumed ==
  CycleOk =>
    /\ emitted <=> (opcode = 224 \/ opcode \div 4096 = 13)
    /\ ~draw

\* the display emitted again in an iteration whose cycle was a jump
C24_StaleEmission ==
  /\ CycleOk
  /\ opcode \div 4096 = 1
  /\ emitted

\* C25: with the period T = 1/500 s and an iteration that took e, the loop
\* blocks for T - e when e < T and does not block when e >= T.
C25_Pacing ==
  CycleOk => slept = (IF elapsed < ChipClockTime THEN ChipClockTime - elapsed ELSE 0)

\* an iteration that took longer than the period and was delayed further
C25_SlowDelayed ==
  /\ CycleOk
  /\ elapsed > ChipClockTime
  /\ slept > 0

Cat == opcode \div 4096

NibX == (opcode \div 256) % 16

NibY == (opcode \div 16) % 16

\* the condition of the last instruction word, a conditional skip, held
\* before the cycle
SkipTaken ==
  CASE Cat = 3 -> Before.v[NibX] = opcode % 256
    [] Cat = 4 -> Before.v[NibX] # opcode % 256
    [] Cat = 5 -> Before.v[NibX] = Before.v[NibY]
    [] Cat = 9 -> Before.v[NibX] # Before.v[NibY]
    [] OTHER -> FALSE

\* C27: a cycle that ran to its end leaves PC = nnn after 1nnn and 2nnn, and
\* after every opcode other than 1nnn, 2nnn, 00EE and Bnnn it leaves PC 2
\* higher than before, or 4 higher after a conditional skip whose condition
\* held.
C27_PcAdvance ==
  (Fetched /\ CycleOk) =>
    CASE Cat \in {1, 2} -> pc = opcode % 4096
      [] Cat = 11 \/ opcode = 238 -> TRUE
      [] OTHER -> pc = Before.pc + (IF SkipTaken THEN 4 ELSE 2)

\* a 4xnn whose condition held and that left PC 4 higher
C27_Witness ==
  /\ Fetched /\ CycleOk
  /\ Cat = 4 /\ SkipTaken
  /\ pc = Before.pc + 4

\* C28: the fields of every instruction word are taken by position,
\* x = (opcode >> 8) & 0xF and y = (opcode >> 4) & 0xF are register indexes in
\* 0 .. 15, n = opcode & 0xF, nn = opcode & 0xFF and nnn = opcode & 0xFFF, so
\* 7xnn adds nn to V[x] and to no other register, and no register access is
\* out of range.
C28_DecodePositional ==
  Fetched =>
    /\ DecodeX(opcode) = NibX /\ DecodeX(opcode) \in 0 .. V_SIZE - 1
    /\ DecodeY(opcode) = NibY /\ DecodeY(opcode) \in 0 .. V_SIZE - 1
    /\ DecodeN(opcode) = opcode % 16
    /\ DecodeNN(opcode) = opcode % 256
    /\ DecodeNNN(opcode) = opcode % 4096
    /\ DOMAIN v = 0 .. V_SIZE - 1
    /\ Cat = 7 =>
         /\ CycleOk
         /\ v = [Before.v EXCEPT ![NibX] = (Before.v[NibX] + (opcode % 256)) % 256]

\* the word 0x7103 after it has added 3 to V1
C28_Witness ==
  /\ Fetched /\ CycleOk
  /\ opcode = 28931
  /\ v[1] = 3 /\ v[0] = 0 /\ v[3] = 0

\* C29: no cycle of a loaded ROM started on a fresh machine begins with PC
\* below 0x200.
C29_NoFetchBelowRom ==
  /\ status \in {"running", "prompt"} => pc >= ROM_START
  /\ Ran => Before.pc >= ROM_START

\* a cycle that fetched its instruction word from the font table
C29_FontExecuted ==
  /\ Fetched
  /\ Before.pc = 0
  /\ opcode = 61584

\* C30: 3xnn skips iff V[x] = nn, 4xnn iff V[x] # nn, 5xy0 iff V[x] = V[y] and
\* 9xy0 iff V[x] # V[y]; on one state exactly one of 3xnn and 4xnn and exactly
\* one of 5xy0 and 9xy0 skips; none of them changes a register, I, the stack,
\* sp or the display.
C30_ConditionalSkips ==
  (Fetched /\ CycleOk /\ Cat \in {3, 4, 5, 9}) =>
    /\ pc = Before.pc + (IF SkipTaken THEN 4 ELSE 2)
    /\ (Op3xnn(Before, NibX, opcode % 256).pc = Before.pc + 4)
         # (Op4xnn(Before, NibX, opcode % 256).pc = Before.pc + 4)
    /\ (Op5xy0(Before, NibX, NibY).pc = Before.pc + 4)
         # (Op9xy0(Before, NibX, NibY).pc = Before.pc + 4)
    /\ v = Before.v
    /\ i = Before.i
    /\ stack = Before.stack
    /\ sp = Before.sp
    /\ display = Before.display

\* a 9xy0 that skipped over registers holding different values
C30_Witness ==
  /\ Fetched /\ CycleOk
  /\ Cat = 9
  /\ Before.v[NibX] # Before.v[NibY]
  /\ pc = Before.pc + 4

\* C31: 7xnn never fails and leaves V[x] = (a + nn) mod 256 for a = V[x]
\* before the cycle, and every other register, VF included when x # 0xF, as
\* it was: no carry is written.
C31_AddImmediate ==
  (Fetched /\ Cat = 7) =>
    /\ CycleOk
    /\ v = [Before.v EXCEPT ![NibX] = (Before.v[NibX] + (opcode % 256)) % 256]

\* an addition that wrapped around while VF held a value other than 0 and 1
C31_Witness ==
  /\ Fetched /\ Cat = 7 /\ CycleOk
  /\ NibX # 15
  /\ Before.v[NibX] + (opcode % 256) > 255
  /\ Before.v[15] > 1
  /\ v[15] = Before.v[15]

\* C32: 8xy7 completes without error for all a = V[x] and b = V[y], b < a
\* included, and leaves V[x] = (b - a) mod 256 and VF = 1 iff b > a (the
\* values are compared for x other than 0xF, where V[x] and VF are two
\* registers).
C32_ReverseSubtractCompletes ==
  Is8xy(7) =>
    /\ CycleOk
    /\ X # 15 =>
         /\ v[X] = (Before.v[Y] - Before.v[X]) % 256
         /\ (v[15] = 1) <=> (Before.v[Y] > Before.v[X])
         /\ v[15] \in {0, 1}

\* C33: after Bnnn PC = nnn + V[0], not reduced modulo 4096 and whatever
\* V[x] holds, and the registers, I, the stack and sp are unchanged.
C33_JumpWithOffset ==
  (Fetched /\ Cat = 11) =>
    /\ CycleOk
    /\ pc = (opcode % 4096) + Before.v[0]
    /\ v = Before.v
    /\ i = Before.i
    /\ stack = Before.stack
    /\ sp = Before.sp

\* a jump with offset beyond the end of memory, V[x] differing from V0
C33_Witness ==
  /\ Fetched /\ Cat = 11 /\ CycleOk
  /\ pc > 4095
  /\ Before.v[NibX] # Before.v[0]
  /\ Before.v[0] # 0

\* C34: a cycle that executes Cxnn takes one byte r from the generator and
\* leaves V[x] = r AND nn, so V[x] has no bit outside nn, PC 2 higher and
\* every other register, I, the stack, sp and the display unchanged; a cycle
\* of any other opcode takes no byte.
C34_Random ==
  [][ cycles' = cycles + 1 =>
        IF pc + 1 < MAX_MEMORY_SIZE /\ opcode' \div 4096 = 12
          THEN /\ draws' = draws + 1
               /\ panic' = "none"
               /\ \E r \in { Gen(args.seed, draws) } :
                    \A k \in 0 .. 7 :
                      Bit(v'[(opcode' \div 256) % 16], k)
                        = Bit(r, k) * Bit(opcode' % 256, k)
               /\ \A k \in 0 .. 15 : k # (opcode' \div 256) % 16 => v'[k] = v[k]
               /\ pc' = pc + 2
               /\ UNCHANGED << i, stack, sp, display >>
          ELSE draws' = draws ]_vars

\* the random byte 0xFF masked with 0x80, the second byte of its run
C34_Witness ==
  /\ Fetched /\ CycleOk /\ Cat = 12
  /\ draws = 2
  /\ opcode % 256 = 128
  /\ v[NibX] = 128

\* C35: a Dxyn that ran to its end has set the redraw flag and has reset VF,
\* which is 0 unless a cell was turned off, also when no cell changed; with
\* n = 0 the cycle cannot fail, the display is unchanged and VF = 0.
C35_DrawAlwaysFlags ==
  IsDraw =>
    /\ CycleOk =>
         /\ draw
         /\ display = Before.display => v[15] = 0
    /\ DrawN = 0 =>
         /\ CycleOk
         /\ display = Before.display
         /\ v[15] = 0

\* a first Dxy0, executed while VF held 60 and the redraw flag was down
C35_Witness ==
  /\ IsDraw /\ CycleOk
  /\ DrawN = 0
  /\ Before.v[15] = 60
  /\ ~Before.draw
  /\ draw /\ v[15] = 0

\* C36: the timers are inert: delay_timer and sound_timer are 0 in every
\* state of a machine built by new, whatever was loaded and however many
\* cycles and iterations of the loop have run.
C36_TimersInert == timers = [delay_timer |-> 0, sound_timer |-> 0]

\* a loop that has run ten iterations without a failure
C36_Witness == status = "running" /\ cycles >= 10 /\ CycleOk

\* C37: with stepping off, run never returns normally and never prompts; it
\* ends only by the panic of a cycle, and every step of a running loop is the
\* next cycle, after which the loop is running again unless the cycle failed.
C37_NoNormalExit ==
  /\ [](~args.stepping =>
          /\ status \notin {"exited", "prompt"}
          /\ (status = "panicked" /\ Ran) => CyclePanicked)
  /\ [][ (~args.stepping /\ status = "running") =>
           /\ cycles' = cycles + 1
           /\ status' = IF panic' = "none" THEN "running" ELSE "panicked" ]_vars

\* a free-running loop that has done every cycle the bound allows
C37_Witness ==
  /\ ~args.stepping
  /\ status = "running"
  /\ cycles = MaxCycles
  /\ CycleOk

\* C38: 8xy0, 8xy1, 8xy2 and 8xy3 never fail and leave in V[x] the value of
\* V[y], V[x] OR V[y], V[x] AND V[y] and V[x] XOR V[y] (stated bit by bit), PC
\* 2 higher and every other register, VF included when x # 0xF, I, the stack
\* and sp as they were.
C38_CopyAndBitwise ==
  \A n \in 0 .. 3 :
    Is8xy(n) =>
      /\ CycleOk
      /\ \A k \in 0 .. 7 :
           \E a \in { Bit(Before.v[X], k) } :
           \E b \in { Bit(Before.v[Y], k) } :
             Bit(v[X], k) = CASE n = 0 -> b
                              [] n = 1 -> IF a + b > 0 THEN 1 ELSE 0
                              [] n = 2 -> a * b
                              [] n = 3 -> (a + b) % 2
      /\ \A r \in 0 .. V_SIZE - 1 : r # X => v[r] = Before.v[r]
      /\ pc = Before.pc + 2
      /\ i = Before.i
      /\ stack = Before.stack
      /\ sp = Before.sp

\* an OR that changed V[x] while VF held a value other than 0 and 1
C38_Witness ==
  /\ Is8xy(1) /\ CycleOk
  /\ X # 15
  /\ v[X] # Before.v[X]
  /\ Before.v[15] > 1
  /\ v[15] = Before.v[15]

\* C39: memory is read-only during execution: once a ROM is loaded the bytes
\* 0x000-0x04F are the font table and the bytes from 0x200 are the bytes of
\* the file, whatever has run since, no cycle changes a byte, and I <= 0xFFF.
C39_MemoryReadOnly ==
  /\ i <= MAX_MEMORY_SIZE - 1
  /\ rom_loaded =>
       /\ \A k \in 0 .. Len(CHIP8_FONTSET) - 1 :
            ReadMem(memory, k) = CHIP8_FONTSET[k + 1]
       /\ \A k \in 0 .. args.rom.len - 1 :
            ReadMem(memory, ROM_START + k) = FileByte(args.rom, k)
       /\ \A k \in DOMAIN memory :
            \/ k < Len(CHIP8_FONTSET)
            \/ ROM_START <= k /\ k < ROM_START + args.rom.len

\* two sprites were drawn from a high address and memory is as loaded
C39_Witness ==
  /\ rom_loaded
  /\ DrewTwice /\ CycleOk
  /\ i > ROM_START
  /\ display # {}

====
